---- MODULE Spec2Model ----
(***************************************************************************)
(* A model of wandb-gcp-sync.py: a scheduler loop that periodically runs   *)
(* main(), which loads the configuration, initialises the spreadsheet,     *)
(* fetches the runs, filters them with process_runs and appends the new    *)
(* rows with sync_data.                                                    *)
(*                                                                         *)
(* Strings that the program only compares for equality (run ids, user      *)
(* names, header names, cell values) are TLA+ strings.  Worksheet titles,  *)
(* which the program orders and tests for a prefix, are sequences of       *)
(* one-character strings.  Time is in whole seconds since the Unix epoch,  *)
(* and the local time zone of datetime is taken to be UTC.                 *)
(***************************************************************************)
EXTENDS Integers, Sequences, FiniteSets, TLC

VARIABLES
    \* ---- one call of process_runs (specification SpecRuns)
    runs,           \* the fetched runs handed to process_runs
    run_id_list,    \* the ids already in the sheet
    final_headers,  \* config['FIXED_HEADERS']
    user_name,      \* args.user_name
    pcR,            \* "idle" | "call" | "done" | "permuted"
    out,            \* what process_runs(runs, ...) did
    perm,           \* a permutation of runs
    outP,           \* what process_runs(perm, ...) did
    \* ---- the process (specifications Spec and SpecLimit)
    pc,             \* where the process is
    now,            \* the clock, seconds since the epoch
    schedule_time,  \* args.schedule_time, minutes
    next_run,       \* the scheduled job's next_run
    config_file,    \* what is at args.config_path
    cred_file,      \* what is at the path config['GCP_JSON']
    worksheets,     \* the spreadsheet: worksheets in index order
    sheet,          \* main's local: title of the worksheet handle
    fetched,        \* main's local: runs
    new_rows,       \* main's local: new_rows
    exit_error,     \* the exception that ended the process, or "none"
    log,            \* the last message logged by the scheduler loop
    hist            \* history of the run, read by the properties only

varsR == <<runs, run_id_list, final_headers, user_name, pcR, out, perm, outP>>
varsS == <<pc, now, schedule_time, next_run, config_file, cred_file, worksheets,
           sheet, fetched, new_rows, exit_error, log, hist>>
vars == <<varsR, varsS>>

-----------------------------------------------------------------------------
(* Bounds of the model.                                                    *)

MaxRuns == 3
MaxElapsed == 185
StartEpoch == 1700000000

-----------------------------------------------------------------------------
(* Values of a run's config and summary mappings, and str().               *)

IntVal(n) == [t |-> "int", n |-> n, s |-> ""]
StrVal(s) == [t |-> "str", n |-> 0, s |-> s]
\* A finite float: s is its repr, n the whole second that the value, rounded
\* to the microsecond as fromtimestamp rounds it, lies in.
FloatVal(n, s) == [t |-> "float", n |-> n, s |-> s]

\* str(value): an int prints in decimal, a float as its repr, a str is
\* itself.
Str(v) == IF v.t = "int" THEN ToString(v.n) ELSE v.s

\* A mapping attribute of a run: ok = FALSE is an attribute whose reads raise.
Mapping(m) == [ok |-> TRUE, map |-> m]
Broken == [ok |-> FALSE, map |-> <<>>]

\* The value a read of run.user.name raises instead of returning.
Raises == "<raises>"

-----------------------------------------------------------------------------
(* datetime: the civil date and time of an epoch second, UTC.               *)

\* %m, %d, %H, %M, %S: two digits, zero-padded.
Pad2(n) == IF n < 10 THEN "0" \o ToString(n) ELSE ToString(n)

Civil(ts) ==
    LET days == ts \div 86400
        secs == ts % 86400
        z    == days + 719468
        era  == z \div 146097
        doe  == z - era * 146097
        yoe  == (doe - doe \div 1460 + doe \div 36524 - doe \div 146096) \div 365
        doy  == doe - (365 * yoe + yoe \div 4 - yoe \div 100)
        mp   == (5 * doy + 2) \div 153
        d    == doy - (153 * mp + 2) \div 5 + 1
        m    == IF mp < 10 THEN mp + 3 ELSE mp - 9
        y    == yoe + era * 400 + (IF m <= 2 THEN 1 ELSE 0)
    IN  [Y |-> y, m |-> m, d |-> d,
         H |-> secs \div 3600, M |-> (secs % 3600) \div 60, S |-> secs % 60]

\* The seconds datetime.fromtimestamp accepts: 0001-01-02 00:00:00 to
\* 9999-12-31 23:59:59; outside it raises.
\* In days since 1970-01-01: -719161 to 2932896.
InDatetimeRange(ts) == (ts \div 86400) >= -719161 /\ (ts \div 86400) <= 2932896

\* strftime("%Y-%m-%d %H:%M:%S"); %Y is the year in decimal, not padded.
FormatRowTime(ts) ==
    LET c == Civil(ts)
    IN  ToString(c.Y) \o "-" \o Pad2(c.m) \o "-" \o Pad2(c.d) \o " " \o
        Pad2(c.H) \o ":" \o Pad2(c.M) \o ":" \o Pad2(c.S)

-----------------------------------------------------------------------------
(* get_timestamp, get_run_value, process_runs.                             *)

\* "" when "_timestamp" is absent, and "" when anything raises: the summary
\* cannot be read, the value is not a number, or it is a number outside
\* the range fromtimestamp accepts.
get_timestamp(run) ==
    IF ~run.summary.ok THEN ""
    ELSE IF "_timestamp" \notin DOMAIN run.summary.map THEN ""
    ELSE LET v == run.summary.map["_timestamp"]
         IN  IF v.t \in {"int", "float"} /\ InDatetimeRange(v.n)
             THEN FormatRowTime(v.n)
             ELSE ""

\* get_run_value with the summary looked up before the config.
get_run_value_summary_first(run, key) ==
    IF ~run.config.ok \/ ~run.summary.ok THEN ""
    ELSE IF key \in DOMAIN run.summary.map THEN Str(run.summary.map[key])
    ELSE IF key \in DOMAIN run.config.map THEN Str(run.config.map[key])
    ELSE ""

get_run_value(run, key) ==
    IF ~run.config.ok THEN ""
    ELSE IF key \in DOMAIN run.config.map THEN Str(run.config.map[key])
    ELSE IF ~run.summary.ok THEN ""
    ELSE IF key \in DOMAIN run.summary.map THEN Str(run.summary.map[key])
    ELSE ""

\* final_headers[3:]
HeadersTail(headers) ==
    IF Len(headers) <= 3 THEN << >> ELSE SubSeq(headers, 4, Len(headers))

\* The row of lines 179-187, given the second read of run.user.name.
BuildRow(run, headers) ==
    <<run.id, get_timestamp(run), run.userReads[2]>> \o
    [i \in 1..Len(HeadersTail(headers)) |-> get_run_value(run, HeadersTail(headers)[i])]

\* Line 176 without the test against run_id_list.
IsNew_no_id_check(run, ids) == run.state = "running"

\* The condition of line 176.
IsNew(run, ids) ==
    run.state = "running" /\ \A i \in 1..Len(ids) : ids[i] # run.id

\* One iteration of the for loop on the accumulator [rows, logged, raised].
\* The read of run.user.name at line 177 is outside the try: when it raises,
\* the exception leaves process_runs.  The read at line 182 is inside: when
\* it raises, the run is logged and skipped.
StepRun(acc, run, ids, headers, user) ==
    IF acc.raised THEN acc
    ELSE IF ~IsNew(run, ids) THEN acc
    ELSE IF run.userReads[1] = Raises THEN [acc EXCEPT !.raised = TRUE]
    ELSE IF run.userReads[1] # user THEN acc
    ELSE IF run.userReads[2] = Raises
         THEN [acc EXCEPT !.logged = Append(@, run.id)]
    ELSE [acc EXCEPT !.rows = Append(@, BuildRow(run, headers))]

RECURSIVE ProcessFrom(_, _, _, _, _, _)
ProcessFrom(acc, rs, i, ids, headers, user) ==
    IF i > Len(rs) THEN acc
    ELSE ProcessFrom(StepRun(acc, rs[i], ids, headers, user), rs, i + 1, ids, headers, user)

\* rows: rows_to_add as returned; raised: an exception left the function
\* (and nothing was returned); logged: ids of the runs logged as skipped.
process_runs(rs, ids, headers, user) ==
    ProcessFrom([rows |-> << >>, logged |-> << >>, raised |-> FALSE],
                rs, 1, ids, headers, user)

-----------------------------------------------------------------------------
(* The inputs of process_runs that the model draws from.                   *)

Run(id, state, u1, u2, config, summary) ==
    [id |-> id, state |-> state, userReads |-> <<u1, u2>>,
     config |-> config, summary |-> summary]

RunA == Run("a1", "running", "alice", "alice",
            Mapping([k \in {"accuracy"} |-> IntVal(91)]),
            Mapping([k \in {"_timestamp", "loss", "accuracy"} |->
                       IF k = "loss" THEN StrVal("0.5")
                       ELSE IF k = "accuracy" THEN IntVal(12)
                       ELSE IntVal(StartEpoch)]))
RunB == Run("b2", "running", "alice", "alice",
            Mapping(<<>>),
            Mapping([k \in {"_timestamp", "accuracy"} |->
                       IF k = "accuracy" THEN IntVal(7)
                       ELSE FloatVal(StartEpoch + 61, "1700000061.5")]))
RunC == Run("c3", "finished", "alice", "alice",
            Mapping([k \in {"accuracy"} |-> IntVal(3)]),
            Mapping([k \in {"_timestamp"} |-> IntVal(0)]))
RunD == Run("d4", "running", "bob", "bob",
            Mapping([k \in {"loss"} |-> IntVal(-2)]),
            Mapping(<<>>))
\* run.user.name raises on every read
RunE == Run("e5", "running", Raises, Raises,
            Mapping([k \in {"accuracy"} |-> IntVal(1)]),
            Mapping(<<>>))
\* run.user.name raises on the second read only
RunF == Run("f6", "running", "alice", Raises,
            Mapping([k \in {"accuracy"} |-> IntVal(2)]),
            Mapping(<<>>))
\* reads of run.config raise; "_timestamp" is not a number
RunG == Run("g7", "running", "alice", "alice",
            Broken,
            Mapping([k \in {"_timestamp", "accuracy"} |->
                       IF k = "accuracy" THEN IntVal(5) ELSE StrVal("n/a")]))
\* reads of run.summary raise
RunH == Run("h8", "running", "alice", "alice",
            Mapping([k \in {"loss"} |-> FloatVal(0, "0.25")]),
            Broken)

RunUniverse == {RunA, RunB, RunC, RunD, RunE, RunF, RunG, RunH}

IdLists == {<< >>, <<"b2", "g7">>}

HeaderLists == {<< >>, <<"id", "ts", "user">>,
                <<"id", "ts", "user", "accuracy", "loss">>,
                <<"loss", "accuracy", "x", "accuracy">>}

SeqsUpTo(S, n) == UNION {[1..k -> S] : k \in 0..n}

\* The orderings of a list.
Reorderings(rs) ==
    {[i \in 1..Len(rs) |-> rs[f[i]]] : f \in Permutations(1..Len(rs))}

NoOut == [rows |-> << >>, logged |-> << >>, raised |-> FALSE]

-----------------------------------------------------------------------------
(* Specification SpecRuns: process_runs is called on a list of runs, then  *)
(* on a reordering of the same list.                                       *)

IdleS ==
    /\ pc = "unused" /\ now = 0 /\ schedule_time = 0 /\ next_run = 0
    /\ config_file = "unused" /\ cred_file = "ok" /\ worksheets = << >>
    /\ sheet = << >> /\ fetched = << >> /\ new_rows = << >>
    /\ exit_error = "none" /\ log = "" /\ hist = << >>

InitRuns ==
    /\ runs \in SeqsUpTo(RunUniverse, MaxRuns)
    /\ run_id_list \in IdLists
    /\ final_headers \in HeaderLists
    /\ user_name = "alice"
    /\ pcR = "call"
    /\ out = NoOut
    /\ perm = runs
    /\ outP = NoOut
    /\ IdleS

CallProcessRuns ==
    /\ pcR = "call"
    /\ out' = process_runs(runs, run_id_list, final_headers, user_name)
    /\ pcR' = "done"
    /\ UNCHANGED <<runs, run_id_list, final_headers, user_name, perm, outP, varsS>>

CallPermuted ==
    /\ pcR = "done"
    /\ \E p \in Reorderings(runs) :
         /\ perm' = p
         /\ outP' = process_runs(p, run_id_list, final_headers, user_name)
    /\ pcR' = "permuted"
    /\ UNCHANGED <<runs, run_id_list, final_headers, user_name, out, varsS>>

NextRuns == CallProcessRuns \/ CallPermuted

SpecRuns == InitRuns /\ [][NextRuns]_vars

-----------------------------------------------------------------------------
(* Worksheet titles: str comparison, str.startswith, strftime.             *)

\* The characters titles are made of, in code-point order.
Alphabet == <<"0", "1", "2", "3", "4", "5", "6", "7", "8", "9",
              "A", "S", "_", "a", "c", "e", "h", "i", "n", "r", "s", "t",
              "u", "v">>

Ord(c) == CHOOSE i \in 1..Len(Alphabet) : Alphabet[i] = c

\* a < b on str: the first differing character decides, a proper prefix is
\* smaller.
LexLess(a, b) ==
    \/ /\ Len(a) < Len(b)
       /\ \A k \in 1..Len(a) : a[k] = b[k]
    \/ \E i \in 1..Len(a) :
         /\ i <= Len(b)
         /\ \A k \in 1..(i - 1) : a[k] = b[k]
         /\ Ord(a[i]) < Ord(b[i])

startswith(t, prefix) ==
    Len(t) >= Len(prefix) /\ SubSeq(t, 1, Len(prefix)) = prefix

RunsPrefix == <<"r", "u", "n", "s", "_">>

\* n, zero-padded to width decimal digits.
Digits(n, width) ==
    [i \in 1..width |-> Alphabet[((n \div (10 ^ (width - i))) % 10) + 1]]

\* The year of a datetime, 1 to 9999, in decimal, not padded.
Decimal(n) ==
    Digits(n, IF n < 10 THEN 1 ELSE IF n < 100 THEN 2 ELSE IF n < 1000 THEN 3 ELSE 4)

\* f"runs_{datetime.now().strftime('%Y%m%d_%H%M%S')}"
NewSheetName(t) ==
    LET c == Civil(t)
    IN  RunsPrefix \o Decimal(c.Y) \o Digits(c.m, 2) \o Digits(c.d, 2) \o <<"_">> \o
        Digits(c.H, 2) \o Digits(c.M, 2) \o Digits(c.S, 2)

-----------------------------------------------------------------------------
(* load_config.                                                            *)

RequiredKeys == {"GCP_JSON", "FIXED_HEADERS"}
ProjectKeys == {"TEAM_NAME", "PROJECT_NAME"}

\* What the configuration file holds under a key.
ConfigValue(key) ==
    IF key = "FIXED_HEADERS" THEN <<"id", "ts", "user", "accuracy">>
    ELSE IF key = "GCP_JSON" THEN <<"key.json">>
    ELSE IF key = "TEAM_NAME" THEN <<"team">>
    ELSE <<"project">>

\* What is at a path: nothing ("missing"), a directory, a file whose bytes
\* are not UTF-8 ("undecodable"), text that is not JSON ("invalid"), a JSON
\* number, a JSON array of the given strings, or a JSON object with the
\* given keys.
ConfigFiles ==
    {[kind |-> k, keys |-> {}] :
        k \in {"missing", "directory", "undecodable", "invalid", "number"}} \cup
    {[kind |-> "array", keys |-> K] : K \in {{}, RequiredKeys}} \cup
    {[kind |-> "object", keys |-> K] : K \in SUBSET (RequiredKeys \cup ProjectKeys)}

ValidConfigFile == [kind |-> "object", keys |-> RequiredKeys \cup ProjectKeys]

\* error: "none", or the class of the exception that leaves load_config.
\* Lines 64-67 turn FileNotFoundError and JSONDecodeError into ConfigError;
\* the other errors of open() and of the decoding leave as they are.  `in`
\* on a number raises TypeError, and so does the lookup of line 59 on an
\* array; on an object it raises KeyError, which `except ConfigError` lets
\* by.
load_config(file) ==
    IF file.kind = "missing" THEN [error |-> "ConfigError", config |-> << >>]
    ELSE IF file.kind = "directory"
         THEN [error |-> "IsADirectoryError", config |-> << >>]
    ELSE IF file.kind = "undecodable"
         THEN [error |-> "UnicodeDecodeError", config |-> << >>]
    ELSE IF file.kind = "invalid" THEN [error |-> "ConfigError", config |-> << >>]
    ELSE IF file.kind = "number" THEN [error |-> "TypeError", config |-> << >>]
    ELSE IF \E k \in RequiredKeys : k \notin file.keys
         THEN [error |-> "ConfigError", config |-> << >>]
    ELSE IF file.kind = "array" THEN [error |-> "TypeError", config |-> << >>]
    ELSE IF \E k \in ProjectKeys : k \notin file.keys
         THEN [error |-> "KeyError", config |-> << >>]
    ELSE [error |-> "none", config |-> [k \in file.keys |-> ConfigValue(k)]]

-----------------------------------------------------------------------------
(* init_sheet.  A worksheet is [title, rows]; the spreadsheet is the       *)
(* sequence of its worksheets in index order, sheet1 the first of them.    *)
(* get_all_values() of a worksheet without content is the empty list.      *)

SheetLimit == 100

Titles(ws) == {ws[i].title : i \in 1..Len(ws)}

\* The titles of line 113: those not prefixed runs_.
NonRunsTitles(ws) == {t \in Titles(ws) : ~startswith(t, RunsPrefix)}

\* min(..., key=lambda x: x.title) of lines 112-115, on a non-empty set.
OldestSheet(ws) ==
    CHOOSE t \in NonRunsTitles(ws) :
        \A u \in NonRunsTitles(ws) : u = t \/ LexLess(t, u)

\* Line 111 with > for >=.
AtLimit_strict(ws) == Len(ws) > SheetLimit

\* The condition of line 111.
AtLimit(ws) == Len(ws) >= SheetLimit

\* oldest_sheet.delete()
DeleteSheet(ws, title) == SelectSeq(ws, LAMBDA w : w.title # title)

\* add_worksheet, lines 121-126: the new worksheet has no rows yet.
AddSheet(ws, title) == Append(ws, [title |-> title, rows |-> << >>])

\* worksheet.append_row(header_row) on the worksheet just added.
CopyHeader(ws, header_row) ==
    [i \in 1..Len(ws) |->
        IF i = Len(ws) THEN [ws[i] EXCEPT !.rows = <<header_row>>] ELSE ws[i]]

\* What a call of init_sheet did.  error: "none" or the class of the
\* exception that left it; failed: the remote call that failed, "none" if
\* none did; authed: gspread.authorize returned; reached: line 111 was
\* reached; deleted, added: the titles deleted and added.
InitResult(error, failed, ws, handle, authed, reached, deleted, added) ==
    [error |-> error, failed |-> failed, worksheets |-> ws, sheet |-> handle,
     authed |-> authed, reached |-> reached, deleted |-> deleted, added |-> added]

\* The files at config['GCP_JSON'].  Lines 86-88 turn FileNotFoundError and
\* JSONDecodeError into ConfigError; any other error of the read is wrapped
\* into SheetError at lines 143-145.
CredFiles == {"ok", "missing", "invalid", "undecodable", "directory"}

\* The remote calls of init_sheet, in the order of the code.
InitFaults == {"none", "auth", "open", "worksheets", "delete", "get_all_values",
               "add", "row_values", "append_row", "wandb"}

\* An exception that leaves init_sheet as SheetError.
InitFails(failed, ws, authed, reached, deleted, added) ==
    InitResult("SheetError", failed, ws, << >>, authed, reached, deleted, added)

\* Lines 120-135, on the worksheets ws that lines 110-117 left, of which
\* they deleted those titled in deleted; title is the name of line 121.
\* What was deleted or added before a failure stays.
SelectSheet(ws, deleted, title, fault) ==
    LET bare == AddSheet(ws, title)
        header_row == ws[1].rows[1]
        full == IF header_row # << >> THEN CopyHeader(bare, header_row) ELSE bare
    IN  IF fault = "get_all_values"
        THEN InitFails(fault, ws, TRUE, TRUE, deleted, {})
        ELSE IF Len(ws[1].rows) > 0
        THEN IF fault = "add" \/ title \in Titles(ws)
             THEN InitFails("add", ws, TRUE, TRUE, deleted, {})
             ELSE IF fault = "row_values"
             THEN InitFails(fault, bare, TRUE, TRUE, deleted, {title})
             ELSE IF fault = "append_row" /\ header_row # << >>
             THEN InitFails(fault, bare, TRUE, TRUE, deleted, {title})
             ELSE IF fault = "wandb"
             THEN InitFails(fault, full, TRUE, TRUE, deleted, {title})
             ELSE InitResult("none", "none", full, title, TRUE, TRUE,
                             deleted, {title})
        ELSE IF fault = "wandb"
             THEN InitFails(fault, ws, TRUE, TRUE, deleted, {})
             ELSE InitResult("none", "none", ws, ws[1].title, TRUE, TRUE,
                             deleted, {})

\* fault: the remote call that fails in this call if it is made, "none"
\* when none does.  Every exception leaves as ConfigError or SheetError
\* (lines 140-145); the ValueError of min() on an empty sequence is wrapped
\* into SheetError.
init_sheet(ws, cred, t, fault) ==
    IF cred \in {"missing", "invalid"}
    THEN InitResult("ConfigError", "none", ws, << >>, FALSE, FALSE, {}, {})
    ELSE IF cred # "ok" THEN InitFails("none", ws, FALSE, FALSE, {}, {})
    ELSE IF fault = "auth" THEN InitFails(fault, ws, FALSE, FALSE, {}, {})
    ELSE IF fault = "open" THEN InitFails(fault, ws, TRUE, FALSE, {}, {})
    ELSE IF fault = "worksheets" THEN InitFails(fault, ws, TRUE, FALSE, {}, {})
    ELSE IF ~AtLimit(ws) THEN SelectSheet(ws, {}, NewSheetName(t), fault)
    ELSE IF NonRunsTitles(ws) = {} THEN InitFails("none", ws, TRUE, TRUE, {}, {})
    ELSE IF fault = "delete" THEN InitFails(fault, ws, TRUE, TRUE, {}, {})
    ELSE SelectSheet(DeleteSheet(ws, OldestSheet(ws)), {OldestSheet(ws)},
                     NewSheetName(t), fault)

-----------------------------------------------------------------------------
(* The process: the start-up code, the scheduler loop and main().          *)

ErrorPause == 60
LoopSleep == 1
WriteSleep == 1
SecondsPerMinute == 60

\* args.user_name
TrackedUser == "alice"

\* What api.runs can return in a cycle.
FetchOptions == {<< >>, <<RunA>>, <<RunB, RunA>>, <<RunE, RunA>>}

\* [row[0] for row in sheet.get_all_values()[1:]]
SheetIds(rows) == [i \in 1..(Len(rows) - 1) |-> rows[i + 1][1]]

Sheet(ws, title) == ws[CHOOSE i \in 1..Len(ws) : ws[i].title = title]

\* sheet.append_rows(new_rows)
AppendRows(ws, title, rows) ==
    [i \in 1..Len(ws) |->
        IF ws[i].title = title THEN [ws[i] EXCEPT !.rows = @ \o rows] ELSE ws[i]]

\* Job.run rescheduling the job whether or not it raised.
NextRunAfter_always(raised, t, old, minutes) == t + minutes * SecondsPerMinute

\* schedule's Job.run: after the job function returns, next_run is the time
\* of return plus the interval; when it raises, the exception leaves run()
\* before the job is rescheduled, and next_run stays where it was.
NextRunAfter(raised, t, old, minutes) ==
    IF raised THEN old ELSE t + minutes * SecondsPerMinute

\* Job.should_run
Due(t, next) == t >= next

NoInit == [called |-> FALSE, before |-> << >>, count |-> 0, reached |-> FALSE,
           deleted |-> {}, added |-> {}, error |-> "none", failed |-> "none"]

NoHist ==
    [startup |-> "pending",   \* what load_config did at start-up
     cycles |-> 0,            \* cycles started
     failed_at |-> -1,        \* when the last cycle raised, -1 if it did not
     retry_failed_at |-> -1,  \* for the last cycle started after a failed
     retry_started_at |-> -1, \*   one: when that one failed, when this began
     selected |-> 0,          \* calls of init_sheet that returned a handle
     auths_after |-> 0,       \* authorisations after the first of those
     created_after |-> 0,     \* worksheets created after the first of those
     handles |-> {},          \* the handles init_sheet returned
     appended |-> << >>,      \* the run ids sync_data appended, in order
     init |-> NoInit,         \* the last call of init_sheet
     interrupted_in |-> "none"]

IdleR ==
    /\ runs = << >> /\ run_id_list = << >> /\ final_headers = << >>
    /\ user_name = TrackedUser /\ pcR = "idle" /\ out = NoOut
    /\ perm = << >> /\ outP = NoOut

HeaderRow == <<"id", "ts", "user", "accuracy">>
Sheet1Title == <<"S", "h", "e", "e", "t", "1">>
ArchiveTitle == <<"A", "r", "c", "h", "i", "v", "e">>

\* A spreadsheet of n worksheets: first those titled as given, the first of
\* them with the given rows, then worksheets left by earlier runs of the
\* program, one a second.
Spreadsheet(n, titles, rows1) ==
    [i \in 1..n |->
        IF i <= Len(titles)
        THEN [title |-> titles[i], rows |-> IF i = 1 THEN rows1 ELSE << >>]
        ELSE [title |-> NewSheetName(StartEpoch - n + i - 1), rows |-> <<HeaderRow>>]]

SmallSpreadsheets ==
    {Spreadsheet(1, <<Sheet1Title>>, << >>),
     Spreadsheet(1, <<Sheet1Title>>, <<HeaderRow>>)}

FullSpreadsheets ==
    {Spreadsheet(SheetLimit - 1, <<Sheet1Title>>, <<HeaderRow>>),
     Spreadsheet(SheetLimit, <<Sheet1Title>>, <<HeaderRow>>),
     Spreadsheet(SheetLimit, <<Sheet1Title, ArchiveTitle>>, <<HeaderRow>>),
     Spreadsheet(SheetLimit, << >>, << >>)}

InitProcess(files, minutes, creds, spreadsheets) ==
    /\ IdleR
    /\ pc = "start"
    /\ now = StartEpoch
    /\ schedule_time \in minutes
    /\ next_run = 0
    /\ config_file \in files
    /\ cred_file \in creds
    /\ worksheets \in spreadsheets
    /\ sheet = << >>
    /\ fetched = << >>
    /\ new_rows = << >>
    /\ exit_error = "none"
    /\ log = ""
    /\ hist = NoHist

Init == InitProcess(ConfigFiles, {1, 2}, CredFiles, SmallSpreadsheets)

InitLimit == InitProcess({ValidConfigFile}, {1}, {"ok"}, FullSpreadsheets)

Elapsed(t) == t - StartEpoch

\* Lines 229-238: a start-up error is not caught.
Startup ==
    /\ pc = "start"
    /\ LET r == load_config(config_file)
       IN  /\ hist' = [hist EXCEPT !.startup = r.error]
           /\ IF r.error # "none"
              THEN /\ pc' = "crashed"
                   /\ exit_error' = r.error
                   /\ UNCHANGED next_run
              ELSE /\ pc' = "loop"
                   /\ next_run' = now + schedule_time * SecondsPerMinute
                   /\ UNCHANGED exit_error
    /\ UNCHANGED <<varsR, now, schedule_time, config_file, cred_file, worksheets,
                   sheet, fetched, new_rows, log>>

\* Line 242 with no job due: run_pending returns, the loop goes to sleep.
Idle ==
    /\ pc = "loop"
    /\ ~Due(now, next_run)
    /\ pc' = "loop_sleep"
    /\ UNCHANGED <<varsR, now, schedule_time, next_run, config_file, cred_file,
                   worksheets, sheet, fetched, new_rows, exit_error, log, hist>>

\* Line 242 with the job due: run_pending calls main(args).
StartCycle ==
    /\ pc = "loop"
    /\ Due(now, next_run)
    /\ pc' = "main_init"
    /\ hist' = [hist EXCEPT !.cycles = @ + 1,
                            !.retry_failed_at = hist.failed_at,
                            !.retry_started_at = IF hist.failed_at >= 0 THEN now ELSE -1]
    /\ UNCHANGED <<varsR, now, schedule_time, next_run, config_file, cred_file,
                   worksheets, sheet, fetched, new_rows, exit_error, log>>

\* An exception leaves main (lines 225-227), run_pending, and is caught at
\* line 247: the loop logs it and goes to sleep for a minute.
CycleFails ==
    /\ pc' = "error_pause"
    /\ log' = "Unexpected error"
    /\ next_run' = NextRunAfter(TRUE, now, next_run, schedule_time)

\* main returns at time t: the job is rescheduled, run_pending returns and
\* the loop goes to sleep.
CycleReturns(t) ==
    /\ pc' = "loop_sleep"
    /\ log' = "cycle done"
    /\ next_run' = NextRunAfter(FALSE, t, next_run, schedule_time)

\* Lines 208-209.
InitSheet ==
    /\ pc = "main_init"
    /\ \E fault \in InitFaults :
         LET c == load_config(config_file)
             r == init_sheet(worksheets, cred_file, now, fault)
             first == hist.selected = 0
         IN  IF c.error # "none"
             THEN /\ CycleFails
                  /\ hist' = [hist EXCEPT !.failed_at = now]
                  /\ UNCHANGED <<worksheets, sheet>>
             ELSE /\ worksheets' = r.worksheets
                  /\ hist' = [hist EXCEPT
                        !.failed_at = IF r.error # "none" THEN now ELSE @,
                        !.selected = IF r.error = "none" THEN @ + 1 ELSE @,
                        !.auths_after = IF r.authed /\ ~first THEN @ + 1 ELSE @,
                        !.created_after =
                            IF r.added # {} /\ ~first THEN @ + 1 ELSE @,
                        !.handles = IF r.error = "none" THEN @ \cup {r.sheet} ELSE @,
                        !.init = [called |-> TRUE,
                                  before |-> [i \in 1..Len(worksheets) |-> worksheets[i].title],
                                  count |-> Len(r.worksheets),
                                  reached |-> r.reached, deleted |-> r.deleted,
                                  added |-> r.added, error |-> r.error,
                                  failed |-> r.failed]]
                  /\ IF r.error # "none"
                     THEN CycleFails /\ UNCHANGED sheet
                     ELSE /\ sheet' = r.sheet
                          /\ pc' = "main_fetch"
                          /\ UNCHANGED <<log, next_run>>
    /\ UNCHANGED <<varsR, now, schedule_time, config_file, cred_file, fetched,
                   new_rows, exit_error>>

\* Lines 211-217.
Fetch ==
    /\ pc = "main_fetch"
    /\ \E rs \in FetchOptions, fault \in {"none", "api"} :
         LET c == load_config(config_file).config
             r == process_runs(rs, SheetIds(Sheet(worksheets, sheet).rows),
                               c["FIXED_HEADERS"], TrackedUser)
         IN  IF fault = "api" \/ r.raised
             THEN /\ CycleFails
                  /\ hist' = [hist EXCEPT !.failed_at = now]
                  /\ UNCHANGED <<fetched, new_rows>>
             ELSE /\ fetched' = rs
                  /\ new_rows' = r.rows
                  /\ pc' = "main_sync"
                  /\ UNCHANGED <<log, next_run, hist>>
    /\ UNCHANGED <<varsR, now, schedule_time, config_file, cred_file, worksheets,
                   sheet, exit_error>>

\* Lines 219-223 and line 200: an empty batch makes no call and main
\* returns; a batch is appended in one call, and sync_data goes to sleep.
Sync ==
    /\ pc = "main_sync"
    /\ IF new_rows = << >>
       THEN /\ CycleReturns(now)
            /\ hist' = [hist EXCEPT !.failed_at = -1]
            /\ UNCHANGED worksheets
       ELSE \E fault \in {"none", "append"} :
              IF fault = "append"
              THEN /\ CycleFails
                   /\ hist' = [hist EXCEPT !.failed_at = now]
                   /\ UNCHANGED worksheets
              ELSE /\ worksheets' = AppendRows(worksheets, sheet, new_rows)
                   /\ pc' = "write_sleep"
                   /\ hist' = [hist EXCEPT
                         !.appended = @ \o [i \in 1..Len(new_rows) |-> new_rows[i][1]]]
                   /\ UNCHANGED <<log, next_run>>
    /\ UNCHANGED <<varsR, now, schedule_time, config_file, cred_file, sheet,
                   fetched, new_rows, exit_error>>

\* Line 201: the sleep after the write ends, sync_data and main return.
EndWriteSleep ==
    /\ pc = "write_sleep"
    /\ Elapsed(now) + WriteSleep <= MaxElapsed
    /\ now' = now + WriteSleep
    /\ CycleReturns(now + WriteSleep)
    /\ hist' = [hist EXCEPT !.failed_at = -1]
    /\ UNCHANGED <<varsR, schedule_time, config_file, cred_file, worksheets,
                   sheet, fetched, new_rows, exit_error>>

\* Line 243: the sleep of the loop ends.
EndLoopSleep ==
    /\ pc = "loop_sleep"
    /\ Elapsed(now) + LoopSleep <= MaxElapsed
    /\ now' = now + LoopSleep
    /\ pc' = "loop"
    /\ UNCHANGED <<varsR, schedule_time, next_run, config_file, cred_file,
                   worksheets, sheet, fetched, new_rows, exit_error, log, hist>>

\* Line 249: the sleep inside the `except Exception` handler ends.
EndErrorPause ==
    /\ pc = "error_pause"
    /\ Elapsed(now) + ErrorPause <= MaxElapsed
    /\ now' = now + ErrorPause
    /\ pc' = "loop"
    /\ UNCHANGED <<varsR, schedule_time, next_run, config_file, cred_file,
                   worksheets, sheet, fetched, new_rows, exit_error, log, hist>>

\* KeyboardInterrupt raised inside load_config or init_sheet under main:
\* the remote calls made before it have taken effect, the later ones are
\* not made.  at: the remote call of init_sheet that is interrupted.  No
\* `except Exception` on the way catches it, line 244 does.
InterruptInInit ==
    /\ pc = "main_init"
    /\ \E at \in InitFaults \ {"none"} :
         worksheets' =
            IF load_config(config_file).error # "none" THEN worksheets
            ELSE init_sheet(worksheets, cred_file, now, at).worksheets
    /\ pc' = "stopped"
    /\ log' = "Sync process stopped by user"
    /\ hist' = [hist EXCEPT !.interrupted_in = pc]
    /\ UNCHANGED <<varsR, now, schedule_time, next_run, config_file, cred_file,
                   sheet, fetched, new_rows, exit_error>>

\* KeyboardInterrupt raised elsewhere inside the try of line 241 (in
\* run_pending, in main under it, in the sleep of line 201 or in the sleep
\* of line 243): no `except Exception` on the way catches it, line 244 does.
InterruptInTry ==
    /\ pc \in {"loop", "main_fetch", "main_sync", "write_sleep", "loop_sleep"}
    /\ pc' = "stopped"
    /\ log' = "Sync process stopped by user"
    /\ hist' = [hist EXCEPT !.interrupted_in = pc]
    /\ UNCHANGED <<varsR, now, schedule_time, next_run, config_file, cred_file,
                   worksheets, sheet, fetched, new_rows, exit_error>>

\* KeyboardInterrupt raised inside the handler of line 247 (in the sleep of
\* line 249): the except clauses of the same try no longer apply, and the
\* exception leaves the loop and the program.
InterruptInHandler ==
    /\ pc = "error_pause"
    /\ pc' = "crashed"
    /\ exit_error' = "KeyboardInterrupt"
    /\ hist' = [hist EXCEPT !.interrupted_in = pc]
    /\ UNCHANGED <<varsR, now, schedule_time, next_run, config_file, cred_file,
                   worksheets, sheet, fetched, new_rows, log>>

Next ==
    \/ Startup
    \/ Idle
    \/ StartCycle
    \/ InitSheet
    \/ Fetch
    \/ Sync
    \/ EndWriteSleep
    \/ EndLoopSleep
    \/ EndErrorPause
    \/ InterruptInInit
    \/ InterruptInTry
    \/ InterruptInHandler

Spec == Init /\ [][Next]_vars

SpecLimit == InitLimit /\ [][Next]_vars

-----------------------------------------------------------------------------
(* Properties of process_runs, checked under SpecRuns.                     *)

Returned == pcR \in {"done", "permuted"}

IdSet(ids) == {ids[i] : i \in 1..Len(ids)}
RowSet(rows) == {rows[i] : i \in 1..Len(rows)}

\* Every read of run.user.name of every run of the batch returns a name.
UserReadsReturn(rs) ==
    \A i \in 1..Len(rs) : rs[i].userReads[1] # Raises /\ rs[i].userReads[2] # Raises

\* The three conditions of the differ.
Qualifies(run) ==
    /\ run.state = "running"
    /\ run.id \notin IdSet(run_id_list)
    /\ run.userReads[1] = user_name

\* The runs of the batch that a returned row was built from, in order.
RowRuns(rs) == SelectSeq(rs, LAMBDA r : Qualifies(r) /\ r.userReads[2] # Raises)

\* C2: on a batch whose reads of the user name all return, process_runs
\* returns one row per run that is running, not yet in the sheet and owned
\* by the target user, and none for any other run; the rows are in the
\* order of the batch, and a reordering of the batch returns the same set
\* of rows.
C2_ExactlyTheQualifyingRuns ==
    (Returned /\ UserReadsReturn(runs)) =>
        LET q == SelectSeq(runs, Qualifies)
        IN  /\ ~out.raised
            /\ Len(out.rows) = Len(q)
            /\ \A i \in 1..Len(q) : out.rows[i][1] = q[i].id
            /\ pcR = "permuted" =>
                 /\ ~outP.raised
                 /\ RowSet(outP.rows) = RowSet(out.rows)

C2_Witness ==
    /\ pcR = "permuted"
    /\ UserReadsReturn(runs)
    /\ perm # runs
    /\ Len(out.rows) = 2
    /\ Len(runs) = 3
    /\ outP.rows # out.rows
    /\ \E i \in 1..Len(runs) : runs[i].id \in IdSet(run_id_list)

\* The cell the claim describes for a header beyond the third.
ExpectedValue(run, key) ==
    IF run.config.ok /\ key \in DOMAIN run.config.map
    THEN Str(run.config.map[key])
    ELSE IF run.config.ok /\ run.summary.ok /\ key \in DOMAIN run.summary.map
    THEN Str(run.summary.map[key])
    ELSE ""

\* The second column: the time of a numeric "_timestamp" that is the time
\* of a datetime, "" otherwise.
ExpectedTime(run) ==
    IF /\ run.summary.ok
       /\ "_timestamp" \in DOMAIN run.summary.map
       /\ run.summary.map["_timestamp"].t \in {"int", "float"}
       /\ InDatetimeRange(run.summary.map["_timestamp"].n)
    THEN FormatRowTime(run.summary.map["_timestamp"].n)
    ELSE ""

RowShape(row, run, length) ==
    /\ Len(row) = length
    /\ row[1] = run.id
    /\ row[2] = ExpectedTime(run)
    /\ row[3] = run.userReads[1]
    /\ \A k \in 4..Len(row) : row[k] = ExpectedValue(run, final_headers[k])

\* C6 as stated: every returned row is as long as FIXED_HEADERS, whatever
\* the header list, its first three columns are the id, the timestamp or ""
\* and the user name, and each further column is the config value, else the
\* summary value, else "".
C6_RowAsLongAsHeaders ==
    (Returned /\ ~out.raised) =>
        /\ Len(out.rows) = Len(RowRuns(runs))
        /\ \A i \in 1..Len(out.rows) :
             RowShape(out.rows[i], RowRuns(runs)[i], Len(final_headers))

\* C6 amended: a returned row has three columns when FIXED_HEADERS has
\* fewer than three entries and as many columns as FIXED_HEADERS otherwise;
\* its first three columns are the id, the timestamp or "" and the user
\* name, and each further column is the config value, else the summary
\* value, else "" (also "" when the read of the mapping raises).
C6_RowShape ==
    (Returned /\ ~out.raised) =>
        /\ Len(out.rows) = Len(RowRuns(runs))
        /\ \A i \in 1..Len(out.rows) :
             RowShape(out.rows[i], RowRuns(runs)[i],
                      IF Len(final_headers) < 3 THEN 3 ELSE Len(final_headers))

C6_Witness ==
    /\ Returned
    /\ ~out.raised
    /\ Len(final_headers) < 3
    /\ out.rows # << >>
    /\ Len(out.rows[1]) = 3

\* A read of the run's user, timestamp, config or summary raises.
ReadRaises(run) ==
    \/ run.userReads[1] = Raises
    \/ run.userReads[2] = Raises
    \/ ~run.config.ok
    \/ ~run.summary.ok
    \/ /\ "_timestamp" \in DOMAIN run.summary.map
       /\ run.summary.map["_timestamp"].t \notin {"int", "float"}

\* The runs that pass the filter as far as it can be evaluated.
Candidate(run) ==
    /\ run.state = "running"
    /\ run.id \notin IdSet(run_id_list)
    /\ run.userReads[1] \in {user_name, Raises}

\* C8: a run for which a read raises while its row is built contributes no
\* row, the batch is not aborted, and every other qualifying run of the
\* batch gets its row.
C8_FailingRunSkipped ==
    Returned =>
        LET good == SelectSeq(runs, LAMBDA r : Candidate(r) /\ ~ReadRaises(r))
        IN  /\ ~out.raised
            /\ Len(out.rows) = Len(good)
            /\ \A i \in 1..Len(good) : out.rows[i][1] = good[i].id

-----------------------------------------------------------------------------
(* Properties of the process, checked under Spec.                          *)

\* C1: no run id is appended to the spreadsheet twice.
C1_AppendedAtMostOnce ==
    \A i, j \in 1..Len(hist.appended) :
        i # j => hist.appended[i] # hist.appended[j]

\* C3 as stated: a cycle that follows a failed one starts no earlier than
\* one schedule interval after the failure.
C3_NoRetryBeforeTick ==
    hist.retry_started_at >= 0 =>
        hist.retry_started_at >=
            hist.retry_failed_at + schedule_time * SecondsPerMinute

\* C3 amended: an error of a cycle is caught and logged by the loop, which
\* pauses for 60 seconds; the job is not rescheduled, so the cycle is run
\* again when the pause ends, 60 seconds after the failure, whatever the
\* schedule interval.
C3_RetryAfterPause ==
    /\ pc = "error_pause" =>
         /\ log = "Unexpected error"
         /\ exit_error = "none"
         /\ hist.failed_at = now
         /\ Due(now, next_run)
    /\ hist.retry_started_at >= 0 =>
         hist.retry_started_at = hist.retry_failed_at + ErrorPause

C3_Witness ==
    /\ schedule_time = 2
    /\ pc = "main_init"
    /\ hist.retry_started_at = now
    /\ hist.retry_started_at <
         hist.retry_failed_at + schedule_time * SecondsPerMinute

\* C4: the loop ends only on an interrupt, and wherever the interrupt
\* arrives the process leaves through the logged break.
C4_InterruptExitsCleanly ==
    /\ (hist.startup = "none" /\ pc \in {"stopped", "crashed"}) =>
          hist.interrupted_in # "none"
    /\ hist.interrupted_in # "none" =>
          /\ pc = "stopped"
          /\ log = "Sync process stopped by user"
          /\ exit_error = "none"

\* C7: load_config returns a configuration exactly when the file is a JSON
\* object with the four keys, and fails with ConfigError otherwise.
C7_OnlyConfigError ==
    hist.startup # "pending" =>
        /\ hist.startup = "none" <=> config_file = ValidConfigFile
        /\ hist.startup \in {"none", "ConfigError"}

\* C9: once a cycle has selected its worksheet, no later cycle authorises
\* again, creates a worksheet or selects another worksheet.
C9_InitialisedOnce ==
    /\ hist.auths_after = 0
    /\ hist.created_after = 0
    /\ Cardinality(hist.handles) <= 1

-----------------------------------------------------------------------------
(* Properties of the worksheet limit, checked under SpecLimit.             *)

BeforeTitles == {hist.init.before[i] : i \in 1..Len(hist.init.before)}

\* C5: a call of init_sheet that finds 100 or more worksheets, and in which
\* no remote call fails, deletes exactly one, the one with the smallest
\* title among those not prefixed runs_.
C5_DeletesOldest ==
    (/\ hist.init.reached
     /\ hist.init.failed = "none"
     /\ Len(hist.init.before) >= SheetLimit) =>
        \E d \in BeforeTitles :
            /\ hist.init.deleted = {d}
            /\ ~startswith(d, RunsPrefix)
            /\ \A u \in BeforeTitles :
                 (~startswith(u, RunsPrefix) /\ u # d) => LexLess(d, u)
            /\ hist.init.count =
                 Len(hist.init.before) - 1 + Cardinality(hist.init.added)

\* C10: a spreadsheet that starts with at most 100 worksheets never has
\* more; a call of init_sheet adds at most one worksheet, and one that
\* finds 100 worksheets adds one only after it deleted one.
C10_NeverOverLimit ==
    /\ Len(worksheets) <= SheetLimit
    /\ hist.init.called =>
         /\ Cardinality(hist.init.added) <= 1
         /\ hist.init.count <= Len(hist.init.before) + 1
         /\ (Len(hist.init.before) = SheetLimit /\ hist.init.added # {}) =>
               hist.init.deleted # {}

C10_Witness ==
    /\ hist.init.called
    /\ Len(hist.init.before) = SheetLimit
    /\ hist.init.added # {}
    /\ hist.init.deleted # {}
    /\ Len(worksheets) = SheetLimit

====
